---- MODULE Spec2Model ----
(***************************************************************************)
(* Model of dream_oracle.py: the request executor (make_api_request), the  *)
(* response interpreter (parse_generation_response), the journal store     *)
(* (save_dream, view_journal, clear_journal) and the session loop (main).  *)
(*                                                                         *)
(* Text is a sequence of chunks.  A chunk is one character ("a", " ",      *)
(* NUL, ...) or a literal fragment of a message of the program that has no *)
(* whitespace at either end.  Python values are tagged records, so that a  *)
(* value of the wrong type is a value like any other.                      *)
(***************************************************************************)
EXTENDS Integers, Sequences, FiniteSets, TLC

(***************************************************************************)
(* Bounds of the model.                                                    *)
(***************************************************************************)
\* capacity of the journal file, in entry blocks: a write beyond it fails
MaxEntries == 2

(***************************************************************************)
(* Configuration constants of the program.                                 *)
(***************************************************************************)
MAX_RETRIES == 3
SEPARATOR_WIDTH == 60

(***************************************************************************)
(* Characters and text.                                                    *)
(***************************************************************************)
NUL == "<NUL>"
SP == " "
NL == "\n"
Whitespace == {SP, NL, "\t"}

\* str.lower() on the characters the prompts care about
LowerChar(c) ==
  CASE c = "Y" -> "y"
    [] c = "N" -> "n"
    [] c = "Q" -> "q"
    [] OTHER -> c

Lower(s) == [i \in 1..Len(s) |-> LowerChar(s[i])]

\* str.replace(old, '') for a one-character old
RECURSIVE RemoveChar(_, _)
RemoveChar(s, c) ==
  IF s = <<>> THEN <<>>
  ELSE IF Head(s) = c THEN RemoveChar(Tail(s), c)
       ELSE <<Head(s)>> \o RemoveChar(Tail(s), c)

RECURSIVE LStrip(_)
LStrip(s) ==
  IF s # <<>> /\ Head(s) \in Whitespace THEN LStrip(Tail(s)) ELSE s

RECURSIVE RStrip(_)
RStrip(s) ==
  IF s # <<>> /\ s[Len(s)] \in Whitespace
  THEN RStrip(SubSeq(s, 1, Len(s) - 1)) ELSE s

\* str.strip()
Strip(s) == RStrip(LStrip(s))

\* c * n
Repeat(c, n) == [i \in 1..n |-> c]

\* needle in haystack
Contains(haystack, needle) ==
  \E i \in 0..(Len(haystack) - Len(needle)) :
     SubSeq(haystack, i + 1, i + Len(needle)) = needle

\* haystack.startswith(prefix)
StartsWith(haystack, prefix) ==
  /\ Len(prefix) <= Len(haystack)
  /\ SubSeq(haystack, 1, Len(prefix)) = prefix

IsPrefix(p, s) == StartsWith(s, p)

(***************************************************************************)
(* Python values, as json.loads produces them.  A dict is the sequence of  *)
(* its <<key, value>> pairs in insertion order, with distinct keys.        *)
(***************************************************************************)
None == [t |-> "null"]
BoolV(b) == [t |-> "bool", v |-> b]
IntV(n) == [t |-> "int", v |-> n]
StrV(s) == [t |-> "str", v |-> s]
ListV(q) == [t |-> "list", v |-> q]
DictV(kv) == [t |-> "dict", v |-> kv]

\* an exception object: its class and str(e)
Exc(type, msg) == [t |-> "exc", type |-> type, msg |-> msg]
IsExc(x) == x.t = "exc"

\* a variable that holds nothing yet
Unset == [t |-> "unset"]

IsStr(x) == x.t = "str"

\* bool(x)
Truthy(x) ==
  CASE x.t = "null" -> FALSE
    [] x.t = "bool" -> x.v
    [] x.t = "int" -> x.v # 0
    [] x.t \in {"str", "list", "dict"} -> Len(x.v) > 0
    [] OTHER -> TRUE

\* x == y on Python values (no bool/int mixing in the inputs used)
PyEq(x, y) == x.t = y.t /\ (x.t = "null" \/ x.v = y.v)

\* x.get(key, default): AttributeError unless x is a dict
Get(x, key, default) ==
  IF x.t # "dict"
  THEN Exc("AttributeError", <<"object has no attribute 'get'">>)
  ELSE IF \E i \in 1..Len(x.v) : x.v[i][1] = key
       THEN x.v[CHOOSE i \in 1..Len(x.v) : x.v[i][1] = key][2]
       ELSE default

\* x[0]
Index0(x) ==
  CASE x.t = "list" ->
         IF Len(x.v) > 0 THEN x.v[1]
         ELSE Exc("IndexError", <<"list index out of range">>)
    [] x.t = "str" ->
         IF Len(x.v) > 0 THEN StrV(<<x.v[1]>>)
         ELSE Exc("IndexError", <<"string index out of range">>)
    [] x.t = "dict" -> Exc("KeyError", <<"0">>)
    [] OTHER -> Exc("TypeError", <<"object is not subscriptable">>)

Digit(d) == <<"0", "1", "2", "3", "4", "5", "6", "7", "8", "9">>[d + 1]

RECURSIVE Decimal(_)
Decimal(n) ==
  IF n < 0 THEN <<"-">> \o Decimal(0 - n)
  ELSE IF n < 10 THEN <<Digit(n)>>
       ELSE Decimal(n \div 10) \o <<Digit(n % 10)>>

\* repr(x); the characters used in the model need no escaping but NUL and
\* the white space
ReprChar(c) ==
  CASE c = NUL -> "\\x00"
    [] c = NL -> "\\n"
    [] c = "\t" -> "\\t"
    [] OTHER -> c

RECURSIVE Repr(_)
RECURSIVE ReprItems(_)
RECURSIVE ReprPairs(_)
Repr(x) ==
  CASE x.t = "null" -> <<"None">>
    [] x.t = "bool" -> IF x.v THEN <<"True">> ELSE <<"False">>
    [] x.t = "int" -> Decimal(x.v)
    [] x.t = "str" -> <<"'">> \o [i \in 1..Len(x.v) |-> ReprChar(x.v[i])] \o <<"'">>
    [] x.t = "list" -> <<"[">> \o ReprItems(x.v) \o <<"]">>
    [] x.t = "dict" -> <<"{">> \o ReprPairs(x.v) \o <<"}">>
    [] OTHER -> x.msg

ReprItems(q) ==
  IF q = <<>> THEN <<>>
  ELSE IF Len(q) = 1 THEN Repr(q[1])
       ELSE Repr(q[1]) \o <<",", SP>> \o ReprItems(Tail(q))

ReprPairs(kv) ==
  IF kv = <<>> THEN <<>>
  ELSE LET one == <<"'", kv[1][1], "'", ":", SP>> \o Repr(kv[1][2])
       IN IF Len(kv) = 1 THEN one
          ELSE one \o <<",", SP>> \o ReprPairs(Tail(kv))

\* str(x), as an f-string formats a value
PyStr(x) == IF x.t = "str" THEN x.v ELSE Repr(x)

(***************************************************************************)
(* parse_generation_response                                               *)
(***************************************************************************)
MSG_TRUNCATED ==
  <<"The Oracle's vision was too vast and was cut short.", SP, "(MAX_TOKENS).">>
MSG_BLOCKED == <<"The Oracle's vision was blocked by:", SP>>
MSG_UNCLEAR ==
  <<"The Oracle spoke, but the vision was unclear (could not parse text).">>
MSG_CRITICAL ==
  <<"A critical error occurred while parsing the Oracle's response.">>

STOP == <<"S", "T", "O", "P">>
MAX_TOKENS == <<"M", "A", "X", "_", "T", "O", "K", "E", "N", "S">>

\* a plausible slip: the text is trimmed before it is returned
ExtractTextStripped(candidate) ==
  LET content == Get(candidate, "content", DictV(<<>>)) IN
  IF IsExc(content) THEN content ELSE
  LET parts == Get(content, "parts", ListV(<<>>)) IN
  IF IsExc(parts) THEN parts ELSE
  LET part == Index0(parts) IN
  IF IsExc(part) THEN part ELSE
  LET text == Get(part, "text", None) IN
  IF IsExc(text) THEN text ELSE
  IF Truthy(text)
  THEN (IF text.t = "str" THEN StrV(Strip(text.v)) ELSE text)
  ELSE StrV(MSG_UNCLEAR)

\* a plausible slip: no fallback for a text that is absent or empty
ExtractTextNoFallback(candidate) ==
  LET content == Get(candidate, "content", DictV(<<>>)) IN
  IF IsExc(content) THEN content ELSE
  LET parts == Get(content, "parts", ListV(<<>>)) IN
  IF IsExc(parts) THEN parts ELSE
  LET part == Index0(parts) IN
  IF IsExc(part) THEN part ELSE
  Get(part, "text", None)

\* lines 117-122: the text of the first part, or the 'unclear' fallback;
\* an exception anywhere on the way is the result
ExtractText(candidate) ==
  LET content == Get(candidate, "content", DictV(<<>>)) IN
  IF IsExc(content) THEN content ELSE
  LET parts == Get(content, "parts", ListV(<<>>)) IN
  IF IsExc(parts) THEN parts ELSE
  LET part == Index0(parts) IN
  IF IsExc(part) THEN part ELSE
  LET text == Get(part, "text", None) IN
  IF IsExc(text) THEN text ELSE
  IF Truthy(text) THEN text ELSE StrV(MSG_UNCLEAR)

\* a plausible slip: the truncation is reported like any other reason
FinishMessageUniform(finish_reason) ==
  StrV(MSG_BLOCKED \o PyStr(finish_reason) \o <<".">>)

\* lines 112-115: the message for a finish reason that is not "STOP"
FinishMessage(finish_reason) ==
  IF PyEq(finish_reason, StrV(MAX_TOKENS))
  THEN StrV(MSG_TRUNCATED)
  ELSE StrV(MSG_BLOCKED \o PyStr(finish_reason) \o <<".">>)

\* lines 106-122, the body of the try: a value returned or an exception
ParseBody(response) ==
  LET candidates == Get(response, "candidates", ListV(<<>>)) IN
  IF IsExc(candidates) THEN candidates ELSE
  LET candidate == Index0(candidates) IN
  IF IsExc(candidate) THEN candidate ELSE
  LET finish_reason == Get(candidate, "finishReason", None) IN
  IF IsExc(finish_reason) THEN finish_reason ELSE
  IF Truthy(finish_reason) /\ ~PyEq(finish_reason, StrV(STOP))
  THEN FinishMessage(finish_reason)
  ELSE ExtractText(candidate)

\* lines 101-127: except Exception turns any exception into the fallback
parse_generation_response(response) ==
  LET r == ParseBody(response) IN
  IF IsExc(r) THEN StrV(MSG_CRITICAL) ELSE r

(***************************************************************************)
(* The inputs of the model: what the user types, what the environment      *)
(* holds and what the remote API answers.                                  *)
(***************************************************************************)
\* GEMINI_API_KEY: unset, set but empty, set
EnvKeys == {None, StrV(<<>>), StrV(<<"k", "1">>)}

\* answers to the API key prompt
KeyAnswers == {<<>>, <<SP>>, <<"q">>, <<SP, "Q">>, <<"k", "2", SP>>}

\* answers to the menu prompt
MenuAnswers == {<<"1">>, <<"2">>, <<"3">>, <<"4">>, <<SP, "4", NL>>, <<"5">>, <<>>}

\* answers to a y/n prompt
YesNoAnswers == {<<"y">>, <<"Y">>, <<"n">>, <<"y", "e", "s">>}

\* dream descriptions
Dreams == {<<>>, <<SP, NL>>, <<SP, "f", NUL, "l", "y", NL>>}

\* time.strftime("%Y-%m-%d %H:%M:%S")
Timestamps == {<<"2025-01-01", SP, "00:00:00">>}

\* e.reason of an HTTPError and of a URLError
HttpReasons == {<<"Forbidden">>}
UrlReasons == {<<"timed", SP, "out">>, <<"Connection", SP, "refused">>}

\* exceptions of an attempt that are neither HTTPError nor URLError: the
\* body of a 2xx response is not JSON
UnexpectedErrors == {Exc("JSONDecodeError", <<"Expecting", SP, "value">>)}

\* a dict of the keys whose value is given (Unset: the key is absent)
RECURSIVE Present(_)
Present(kv) ==
  IF kv = <<>> THEN <<>>
  ELSE IF kv[1][2] = [t |-> "unset"] THEN Present(Tail(kv))
       ELSE <<kv[1]>> \o Present(Tail(kv))

Obj(kv) == DictV(Present(kv))

SOME_TEXT == <<SP, "f", "r", NUL, "e", "e", NL>>

\* the shapes of an API response, level by level
TextVals ==
  {Unset, None, StrV(<<>>), StrV(SOME_TEXT), IntV(0), IntV(42),
   ListV(<<>>), ListV(<<StrV(<<"a">>)>>), BoolV(TRUE)}
PartVals ==
  {None, StrV(<<"a">>), ListV(<<>>)} \cup {Obj(<<<<"text", x>>>>) : x \in TextVals}
PartsVals ==
  {Unset, None, StrV(<<"a">>), DictV(<<>>), ListV(<<>>)}
    \cup {ListV(<<p>>) : p \in PartVals}
ContentVals ==
  {Unset, None, StrV(<<"a">>), ListV(<<>>)}
    \cup {Obj(<<<<"parts", p>>>>) : p \in PartsVals}
FinishVals ==
  {Unset, None, StrV(<<>>), StrV(STOP), StrV(MAX_TOKENS),
   StrV(<<"S", "A", "F", "E", "T", "Y">>), IntV(0), IntV(7),
   ListV(<<StrV(<<"a">>)>>), DictV(<<<<"a", IntV(1)>>>>)}
CandidateVals ==
  {None, StrV(<<"a">>), ListV(<<>>)}
    \cup {Obj(<<<<"finishReason", f>>, <<"content", c>>>>) :
            f \in FinishVals, c \in ContentVals}
CandidatesVals ==
  {Unset, None, StrV(<<>>), StrV(<<"a">>), DictV(<<>>), ListV(<<>>)}
    \cup {ListV(<<c>>) : c \in CandidateVals}
Responses ==
  {None, StrV(<<"a">>), IntV(1), ListV(<<>>)}
    \cup {Obj(<<<<"candidates", c>>>>) : c \in CandidatesVals}

\* a response built from a finish reason and a text
Envelope(f, x) ==
  Obj(<<<<"candidates",
          ListV(<<Obj(<<<<"finishReason", f>>,
                        <<"content",
                          Obj(<<<<"parts", ListV(<<Obj(<<<<"text", x>>>>)>>)>>>>)>>>>)>>)>>>>)

\* the responses of the API during a session: one of each kind of result
SessionResponses ==
  {Envelope(StrV(STOP), StrV(SOME_TEXT)),
   Envelope(StrV(MAX_TOKENS), StrV(SOME_TEXT)),
   Envelope(StrV(STOP), IntV(42)),
   Obj(<<>>)}

(***************************************************************************)
(* State                                                                   *)
(***************************************************************************)
VARIABLES
  pc,              \* state of the session loop
  env_key,         \* os.getenv("GEMINI_API_KEY")
  api_key,         \* main: api_key
  key_answer,      \* get_api_key: the line the key prompt read last
  choice,          \* main: choice, the stripped answer to the menu
  dream,           \* main: dream
  interpretation,  \* main: interpretation
  save_choice,     \* main: save_choice
  call,            \* position in make_api_request: "none", "loop",
                   \* "raise" (line 83), "returned", "raised"
  attempt,         \* make_api_request: iterations of the for loop completed
  last_exception,  \* make_api_request: last_exception
  response,        \* the value make_api_request returned
  raised,          \* the exception that left make_api_request
  outcomes,        \* history: the outcome of each urlopen of the call
  sleeps,          \* history: the argument of each time.sleep of the call
  journal,         \* the file dream_journal.txt
  confirm,         \* clear_journal: confirm
  output,          \* what the last operation displayed
  last_saved,      \* history: arguments of the last successful save_dream
                   \* since the file was last removed
  uncaught         \* the exception that ended main, if any

vars ==
  <<pc, env_key, api_key, key_answer, choice, dream, interpretation,
    save_choice, call, attempt, last_exception, response, raised, outcomes, sleeps, journal,
    confirm, output, last_saved, uncaught>>

requestVars ==
  <<call, attempt, last_exception, response, raised, outcomes, sleeps>>

\* the journal file: absent, or present with its content
NoFile == [t |-> "nofile"]
File(content) == [t |-> "file", v |-> content]
Exists(f) == f.t = "file"
Content(f) == IF Exists(f) THEN f.v ELSE <<>>

\* something displayed: a message, an interpretation or the journal
Shown(kind, text) == [t |-> kind, v |-> text]

MSG_NO_KEY == <<"No API key provided. Exiting.">>
MSG_NEED_DREAM == <<"You must provide a dream to be interpreted.">>
MSG_INVALID == <<"Invalid choice. Please select a number from 1 to 4.">>
MSG_FAREWELL ==
  <<"May your waking life be as insightful as your dreams. Farewell.">>
MSG_SILENT == <<"The Oracle is silent.">>
MSG_ETCHED == <<"Your dream has been etched into memory.">>
MSG_SAVE_FAILED == <<"Failed to save dream:", SP>>
MSG_EMPTY_JOURNAL == <<"Your dream journal is empty. Time to start dreaming!">>
MSG_READ_FAILED == <<"Could not read the journal file:", SP>>
MSG_NO_JOURNAL == <<"No journal found to clear.">>
MSG_FADED ==
  <<"The old memories have faded into mist. Your journal is clear.">>
MSG_CLEAR_FAILED == <<"Failed to clear journal:", SP>>
MSG_UNTOUCHED == <<"The journal remains untouched.">>

OSError == Exc("OSError", <<"[Errno 13] Permission denied">>)
DiskFull == Exc("OSError", <<"[Errno 28] No space left on device">>)

(***************************************************************************)
(* get_api_key and the start of main                                       *)
(***************************************************************************)
Init ==
  /\ pc = "AwaitingApiKey"
  /\ env_key \in EnvKeys
  /\ api_key = Unset
  /\ key_answer = Unset
  /\ choice = Unset
  /\ dream = Unset
  /\ interpretation = Unset
  /\ save_choice = Unset
  /\ call = "none"
  /\ attempt = 0
  /\ last_exception = None
  /\ response = Unset
  /\ raised = Unset
  /\ outcomes = <<>>
  /\ sleeps = <<>>
  /\ journal = NoFile
  /\ confirm = Unset
  /\ output = Unset
  /\ last_saved = Unset
  /\ uncaught = Unset

\* lines 240-244 and 267-274: the key is in the environment
KeyFromEnvironment ==
  /\ pc = "AwaitingApiKey"
  /\ Truthy(env_key)
  /\ api_key' = env_key
  /\ pc' = "MenuIdle"
  /\ UNCHANGED <<env_key, key_answer, choice, dream, interpretation, save_choice,
                 requestVars, journal, confirm, output, last_saved, uncaught>>

\* a plausible slip: the sentinel is compared without lower()
IsQuitExact(key) == key = <<"q">>

\* line 253: the quit sentinel
IsQuit(key) == Lower(key) = <<"q">>

\* lines 247-258 and 267-274: one turn of the prompt loop
KeyFromPrompt(answer) ==
  /\ pc = "AwaitingApiKey"
  /\ ~Truthy(env_key)
  /\ key_answer' = StrV(answer)
  /\ LET key == Strip(answer) IN
       IF IsQuit(key)
       THEN /\ api_key' = None
            /\ pc' = "Exiting"
            /\ output' = Shown("message", MSG_NO_KEY)
       ELSE IF key # <<>>
            THEN /\ api_key' = StrV(key)
                 /\ pc' = "MenuIdle"
                 /\ output' = output
            ELSE UNCHANGED <<api_key, pc, output>>
  /\ UNCHANGED <<env_key, choice, dream, interpretation, save_choice,
                 requestVars, journal, confirm, last_saved, uncaught>>

(***************************************************************************)
(* main: the menu                                                          *)
(***************************************************************************)
\* the locals of an operation that has ended hold nothing any more
ClearRequest ==
  /\ call' = "none"
  /\ attempt' = 0
  /\ last_exception' = None
  /\ response' = Unset
  /\ raised' = Unset
  /\ outcomes' = <<>>
  /\ sleeps' = <<>>

\* lines 274-308: the choice is read and dispatched
MainMenu(answer) ==
  /\ pc = "MenuIdle"
  /\ LET c == Strip(answer) IN
       /\ choice' = StrV(c)
       /\ pc' = CASE c = <<"1">> -> "Interpreting"
                  [] c = <<"2">> -> "Viewing"
                  [] c = <<"3">> -> "Clearing"
                  [] c = <<"4">> -> "Exiting"
                  [] OTHER -> "MenuIdle"
       /\ output' = CASE c = <<"4">> -> Shown("message", MSG_FAREWELL)
                      [] c \in {<<"1">>, <<"2">>, <<"3">>} -> Unset
                      [] OTHER -> Shown("message", MSG_INVALID)
  /\ save_choice' = Unset
  /\ confirm' = Unset
  /\ UNCHANGED <<env_key, key_answer, api_key, dream, interpretation, requestVars,
                 journal, last_saved, uncaught>>

\* a plausible slip: only the empty line counts as no dream
IsBlankUnstripped(text) == text = <<>>

\* line 279: not dream.strip()
IsBlank(text) == Strip(text) = <<>>

\* lines 277-284: the dream is read; a blank one is rejected, any other
\* starts get_ai_interpretation and with it make_api_request
DescribeDream(text) ==
  /\ pc = "Interpreting"
  /\ dream = Unset
  /\ IF IsBlank(text)
     THEN /\ output' = Shown("message", MSG_NEED_DREAM)
          /\ pc' = "MenuIdle"
          /\ UNCHANGED <<dream, call>>
     ELSE /\ dream' = StrV(text)
          /\ call' = "loop"
          /\ UNCHANGED <<pc, output>>
  /\ UNCHANGED <<env_key, key_answer, api_key, choice, interpretation, save_choice,
                 attempt, last_exception, response, raised, outcomes, sleeps,
                 journal, confirm, last_saved, uncaught>>

(***************************************************************************)
(* make_api_request, called by get_ai_interpretation                       *)
(***************************************************************************)
\* the three RuntimeErrors of make_api_request, told apart by their message
ApiError(reason) == Exc("RuntimeError", <<"API Error:", SP>> \o reason)
NetworkError(reason) == Exc("RuntimeError", <<"Network Error:", SP>> \o reason)
\* a plausible slip: the unexpected error is reported as a network error
UnexpectedAsNetwork(e) == Exc("RuntimeError", <<"Network Error:", SP>> \o e.msg)

UnexpectedError(e) == Exc("RuntimeError", <<"Unexpected error:", SP>> \o e.msg)

UndecodableBody ==
  Exc("UnicodeDecodeError", <<"'utf-8' codec can't decode byte 0xff">>)

Outcome(kind, reason) == [kind |-> kind, reason |-> reason]

\* a plausible slip: the wait is computed from the 0-based loop index
BackoffFromIndex(n) == 2 * n

\* lines 74 and 80: the seconds slept after the iteration numbered attempt
Backoff(n) == 2 * (n + 1)

\* line 54: the loop goes on while iterations are left, else line 83
AfterIteration(n) == IF n + 1 < MAX_RETRIES THEN "loop" ELSE "raise"

\* a plausible slip: the error is shown bare
SilentBare(e) == StrV(e.msg)

\* lines 155-157: get_ai_interpretation turns an exception into a text
Silent(e) == StrV(MSG_SILENT \o <<SP>> \o e.msg)

\* lines 284-287: the interpretation is displayed
Display(text) == Shown("interpretation", PyStr(text))

InLoop == pc = "Interpreting" /\ call = "loop" /\ attempt < MAX_RETRIES

\* a plausible slip: the parsed body is kept but not returned, and the
\* loop goes on
AttemptSucceedsWithoutReturn(body) ==
  /\ pc = "Interpreting" /\ call = "loop" /\ attempt < MAX_RETRIES
  /\ outcomes' = Append(outcomes, [kind |-> "Success", reason |-> <<>>])
  /\ response' = body
  /\ attempt' = attempt + 1
  /\ call' = (IF attempt + 1 < MAX_RETRIES THEN "loop" ELSE "raise")
  /\ UNCHANGED <<pc, env_key, api_key, key_answer, choice, dream,
                 interpretation, save_choice, last_exception, raised, sleeps,
                 journal, confirm, output, last_saved, uncaught>>

\* lines 57-59, then 153-154 and 286-287: a 2xx response with a JSON body
\* is returned at once, parsed and displayed
AttemptSucceeds(body) ==
  /\ InLoop
  /\ outcomes' = Append(outcomes, Outcome("Success", <<>>))
  /\ response' = body
  /\ call' = "returned"
  /\ interpretation' = parse_generation_response(body)
  /\ output' = Display(interpretation')
  /\ UNCHANGED <<pc, env_key, key_answer, api_key, choice, dream, save_choice, attempt,
                 last_exception, raised, sleeps, journal, confirm, last_saved,
                 uncaught>>

\* lines 61-67: a non-2xx response.  The error body is read and decoded in
\* the handler; when that fails the exception leaves make_api_request at
\* once and get_ai_interpretation catches it (lines 155-157).
AttemptHTTPError(reason, decodable) ==
  /\ InLoop
  /\ outcomes' = Append(outcomes, Outcome("HTTPError", reason))
  /\ IF decodable
     THEN /\ last_exception' = ApiError(reason)
          /\ call' = "raise"
          /\ UNCHANGED <<raised, interpretation, output>>
     ELSE /\ raised' = UndecodableBody
          /\ call' = "raised"
          /\ interpretation' = Silent(UndecodableBody)
          /\ output' = Display(interpretation')
          /\ UNCHANGED last_exception
  /\ UNCHANGED <<pc, env_key, key_answer, api_key, choice, dream, save_choice, attempt,
                 response, sleeps, journal, confirm, last_saved, uncaught>>

\* lines 69-74: no response; the error is recorded, then the backoff
AttemptURLError(reason) ==
  /\ InLoop
  /\ outcomes' = Append(outcomes, Outcome("URLError", reason))
  /\ last_exception' = NetworkError(reason)
  /\ sleeps' = Append(sleeps, Backoff(attempt))
  /\ attempt' = attempt + 1
  /\ call' = AfterIteration(attempt)
  /\ UNCHANGED <<pc, env_key, key_answer, api_key, choice, dream, interpretation,
                 save_choice, response, raised, journal, confirm, output,
                 last_saved, uncaught>>

\* lines 76-80: any other exception, a 2xx body that is not JSON included
AttemptUnexpected(e) ==
  /\ InLoop
  /\ outcomes' = Append(outcomes, Outcome(e.type, e.msg))
  /\ last_exception' = UnexpectedError(e)
  /\ sleeps' = Append(sleeps, Backoff(attempt))
  /\ attempt' = attempt + 1
  /\ call' = AfterIteration(attempt)
  /\ UNCHANGED <<pc, env_key, key_answer, api_key, choice, dream, interpretation,
                 save_choice, response, raised, journal, confirm, output,
                 last_saved, uncaught>>

\* line 83, then 155-157 and 286-287: the last error is raised, caught by
\* get_ai_interpretation and displayed
RaiseLastException ==
  /\ pc = "Interpreting"
  /\ call = "raise"
  /\ raised' = IF last_exception = None
               THEN Exc("TypeError", <<"exceptions must derive from BaseException">>)
               ELSE last_exception
  /\ call' = "raised"
  /\ interpretation' = Silent(raised')
  /\ output' = Display(interpretation')
  /\ UNCHANGED <<pc, env_key, key_answer, api_key, choice, dream, save_choice, attempt,
                 last_exception, response, outcomes, sleeps, journal, confirm,
                 last_saved, uncaught>>

\* line 293: the answer that asks for the save
SaveChosen(answer) == answer = <<"y">>

\* lines 289-294: the save prompt
SavePrompt(answer) ==
  /\ pc = "Interpreting"
  /\ call \in {"returned", "raised"}
  /\ save_choice' = StrV(Lower(answer))
  /\ IF SaveChosen(Lower(answer))
     THEN /\ pc' = "Saving"
          /\ UNCHANGED <<dream, interpretation, requestVars>>
     ELSE /\ pc' = "MenuIdle"
          /\ dream' = Unset
          /\ interpretation' = Unset
          /\ ClearRequest
  /\ UNCHANGED <<env_key, key_answer, api_key, choice, journal, confirm, output,
                 last_saved, uncaught>>

(***************************************************************************)
(* The journal store                                                       *)
(***************************************************************************)
\* a plausible slip: the NUL bytes stay
sanitize_text_strip_only(text) ==
  IF text.t = "str"
  THEN StrV(Strip(text.v))
  ELSE Exc("AttributeError", <<"object has no attribute 'replace'">>)

\* a plausible slip: strip() comes before replace()
sanitize_text_strip_first(text) ==
  IF text.t = "str"
  THEN StrV(RemoveChar(Strip(text.v), NUL))
  ELSE Exc("AttributeError", <<"object has no attribute 'replace'">>)

\* lines 160-162; text.replace of a value that is no str raises
sanitize_text(text) ==
  IF text.t = "str"
  THEN StrV(Strip(RemoveChar(text.v, NUL)))
  ELSE Exc("AttributeError", <<"object has no attribute 'replace'">>)

\* line 176: the separator line, without its newline
Separator == Repeat("=", SEPARATOR_WIDTH)

\* lines 172-177: the entry block of sanitized texts d and i
Entry(timestamp, d, i) ==
  <<"Time:", SP>> \o timestamp \o <<NL>>
    \o <<"Dream:", SP>> \o d \o <<NL, NL>>
    \o <<"Interpretation:", NL>> \o i \o <<NL>>
    \o Separator \o <<NL, NL>>

\* the entry blocks in a text: each starts with its "Time:" label
NumBlocks(text) == Cardinality({k \in 1..Len(text) : text[k] = "Time:"})

\* a plausible slip: the file is opened with "w"
Overwritten(content, entry) == entry

\* lines 180-181: open(JOURNAL_FILE, "a") and write
Appended(content, entry) == content \o entry

Saved(d, i) == [t |-> "saved", dream |-> d, interpretation |-> i]

\* lines 165-184 and 310-313.  The sanitizing is outside the try: its
\* exception leaves save_dream and main.  io is what the file system does:
\* "ok", "open_fails" (nothing happens) or "write_fails" (the file is
\* opened, so created when absent, and nothing is written).
save_dream(timestamp, io) ==
  /\ pc = "Saving"
  /\ io = "ok" => NumBlocks(Content(journal)) < MaxEntries
  /\ LET d == sanitize_text(dream)
         i == sanitize_text(interpretation)
     IN IF IsExc(d) \/ IsExc(i)
        THEN /\ uncaught' = (IF IsExc(d) THEN d ELSE i)
             /\ pc' = "Crashed"
             /\ UNCHANGED <<dream, interpretation, requestVars, journal,
                            output, last_saved>>
        ELSE /\ CASE io = "ok" ->
                     /\ journal' = File(Appended(Content(journal), Entry(timestamp, d.v, i.v)))
                     /\ output' = Shown("message", MSG_ETCHED)
                     /\ last_saved' = Saved(dream, interpretation)
                  [] io = "write_fails" ->
                     /\ journal' = File(Content(journal))
                     /\ output' = Shown("message", MSG_SAVE_FAILED \o DiskFull.msg)
                     /\ UNCHANGED last_saved
                  [] OTHER ->
                     /\ output' = Shown("message", MSG_SAVE_FAILED \o OSError.msg)
                     /\ UNCHANGED <<journal, last_saved>>
             /\ pc' = "MenuIdle"
             /\ dream' = Unset
             /\ interpretation' = Unset
             /\ ClearRequest
             /\ UNCHANGED uncaught
  /\ UNCHANGED <<env_key, key_answer, api_key, choice, save_choice, confirm>>

\* lines 187-201 and 310-313
view_journal(io) ==
  /\ pc = "Viewing"
  /\ output' = IF ~Exists(journal)
               THEN Shown("message", MSG_EMPTY_JOURNAL)
               ELSE IF io = "ok"
                    THEN Shown("journal", Content(journal))
                    ELSE Shown("message", MSG_READ_FAILED \o OSError.msg)
  /\ pc' = "MenuIdle"
  /\ UNCHANGED <<env_key, key_answer, api_key, choice, dream, interpretation, save_choice,
                 requestVars, journal, confirm, last_saved, uncaught>>

\* a plausible slip: any answer that begins with y confirms
ConfirmsClearLoosely(answer) == answer # <<>> /\ Head(answer) = "y"

\* line 215: the answer that confirms the erasure
ConfirmsClear(answer) == answer = <<"y">>

\* lines 204-223 and 310-313
clear_journal(answer, io) ==
  /\ pc = "Clearing"
  /\ IF ~Exists(journal)
     THEN /\ output' = Shown("message", MSG_NO_JOURNAL)
          /\ UNCHANGED <<confirm, journal, last_saved>>
     ELSE /\ confirm' = StrV(Lower(answer))
          /\ IF ConfirmsClear(Lower(answer))
             THEN IF io = "ok"
                  THEN /\ journal' = NoFile
                       /\ last_saved' = Unset
                       /\ output' = Shown("message", MSG_FADED)
                  ELSE /\ output' = Shown("message", MSG_CLEAR_FAILED \o OSError.msg)
                       /\ UNCHANGED <<journal, last_saved>>
             ELSE /\ output' = Shown("message", MSG_UNTOUCHED)
                  /\ UNCHANGED <<journal, last_saved>>
  /\ pc' = "MenuIdle"
  /\ UNCHANGED <<env_key, key_answer, api_key, choice, dream, interpretation, save_choice,
                 requestVars, uncaught>>

(***************************************************************************)
(* The program                                                             *)
(***************************************************************************)
Next ==
  \/ KeyFromEnvironment
  \/ \E answer \in KeyAnswers : KeyFromPrompt(answer)
  \/ \E answer \in MenuAnswers : MainMenu(answer)
  \/ \E text \in Dreams : DescribeDream(text)
  \/ \E body \in SessionResponses : AttemptSucceeds(body)
  \/ \E reason \in HttpReasons, decodable \in BOOLEAN :
        AttemptHTTPError(reason, decodable)
  \/ \E reason \in UrlReasons : AttemptURLError(reason)
  \/ \E e \in UnexpectedErrors : AttemptUnexpected(e)
  \/ RaiseLastException
  \/ \E answer \in YesNoAnswers : SavePrompt(answer)
  \/ \E timestamp \in Timestamps, io \in {"ok", "open_fails", "write_fails"} :
        save_dream(timestamp, io)
  \/ \E io \in {"ok", "fails"} : view_journal(io)
  \/ \E answer \in YesNoAnswers, io \in {"ok", "fails"} :
        clear_journal(answer, io)

Spec == Init /\ [][Next]_vars

(***************************************************************************)
(* parse_generation_response on its own, over every shape of response      *)
(***************************************************************************)
InitParse ==
  /\ pc = "Parsing"
  /\ response \in Responses
  /\ env_key = None
  /\ api_key = Unset
  /\ key_answer = Unset
  /\ choice = Unset
  /\ dream = Unset
  /\ interpretation = Unset
  /\ save_choice = Unset
  /\ call = "none"
  /\ attempt = 0
  /\ last_exception = None
  /\ raised = Unset
  /\ outcomes = <<>>
  /\ sleeps = <<>>
  /\ journal = NoFile
  /\ confirm = Unset
  /\ output = Unset
  /\ last_saved = Unset
  /\ uncaught = Unset

Parse ==
  /\ pc = "Parsing"
  /\ interpretation' = parse_generation_response(response)
  /\ pc' = "Parsed"
  /\ UNCHANGED <<env_key, key_answer, api_key, choice, dream, save_choice, requestVars,
                 journal, confirm, output, last_saved, uncaught>>

NextParse == Parse

SpecParse == InitParse /\ [][NextParse]_vars

(***************************************************************************)
(* sanitize_text on its own, over every short text, applied twice as       *)
(* save_dream applies it once: dream is the text, interpretation the       *)
(* sanitized text and output the sanitized text sanitized again            *)
(***************************************************************************)
\* the longest text
MaxTextLen == 4

TextChars == {"a", SP, NL, NUL}

Texts == UNION {[1..n -> TextChars] : n \in 0..MaxTextLen}

InitSanitize ==
  /\ pc = "Sanitizing"
  /\ dream \in {StrV(text) : text \in Texts}
  /\ env_key = None
  /\ api_key = Unset
  /\ key_answer = Unset
  /\ choice = Unset
  /\ interpretation = Unset
  /\ save_choice = Unset
  /\ call = "none"
  /\ attempt = 0
  /\ last_exception = None
  /\ response = Unset
  /\ raised = Unset
  /\ outcomes = <<>>
  /\ sleeps = <<>>
  /\ journal = NoFile
  /\ confirm = Unset
  /\ output = Unset
  /\ last_saved = Unset
  /\ uncaught = Unset

SanitizeOnce ==
  /\ pc = "Sanitizing"
  /\ interpretation' = sanitize_text(dream)
  /\ pc' = "Sanitized"
  /\ UNCHANGED <<env_key, api_key, key_answer, choice, dream, save_choice,
                 requestVars, journal, confirm, output, last_saved, uncaught>>

SanitizeAgain ==
  /\ pc = "Sanitized"
  /\ output' = sanitize_text(interpretation)
  /\ pc' = "Resanitized"
  /\ UNCHANGED <<env_key, api_key, key_answer, choice, dream, interpretation,
                 save_choice, requestVars, journal, confirm, last_saved,
                 uncaught>>

NextSanitize == SanitizeOnce \/ SanitizeAgain

SpecSanitize == InitSanitize /\ [][NextSanitize]_vars

(***************************************************************************)
(* Properties                                                              *)
(***************************************************************************)
Yes == StrV(<<"y">>)
Running == {"MenuIdle", "Interpreting", "Saving", "Viewing", "Clearing"}
JustViewed == pc = "MenuIdle" /\ choice = StrV(<<"2">>)
JustCleared == pc = "MenuIdle" /\ choice = StrV(<<"3">>)
AllURLError == \A k \in 1..Len(outcomes) : outcomes[k].kind = "URLError"

\* C1: an attempt answered with a non-2xx response (HTTPError) is the last
\* attempt of the call: no later attempt and no backoff wait follow it, and
\* the call fails with the API error that carries the server's reason.
C1_HttpErrorEndsCallWithApiError ==
  \A k \in 1..Len(outcomes) :
     outcomes[k].kind = "HTTPError" =>
       /\ k = Len(outcomes)
       /\ Len(sleeps) = k - 1
       /\ call \in {"raise", "raised"}
       /\ call = "raised" => raised = ApiError(outcomes[k].reason)

\* C2: when every attempt fails with URLError the call makes exactly
\* MAX_RETRIES = 3 attempts, the wait after attempt n is 2*n seconds, so the
\* waits increase strictly, and only after the third wait does the call
\* fail, with the network error that carries the reason of the last attempt.
C2_UrlErrorsRetriedThenNetworkError ==
  /\ Len(outcomes) <= 3
  /\ (outcomes # <<>> /\ AllURLError) =>
       /\ sleeps = [n \in 1..Len(outcomes) |-> 2 * n]
       /\ \A m, n \in 1..Len(sleeps) : m < n => sleeps[m] < sleeps[n]
       /\ Len(outcomes) < 3 => call = "loop"
       /\ Len(outcomes) = 3 => call \in {"raise", "raised"}
       /\ call = "raised" =>
            raised = Exc("RuntimeError",
                         <<"Network Error:", SP>> \o outcomes[3].reason)

C2_Witness ==
  /\ call = "raised"
  /\ AllURLError
  /\ Len(outcomes) = 3
  /\ outcomes[1].reason # outcomes[3].reason
  /\ sleeps = <<2, 4, 6>>

\* C3: parse_generation_response never raises and its result is a
\* non-empty string, whatever the shape of the response.
C3_ParseReturnsNonEmptyString ==
  pc = "Parsed" =>
    /\ interpretation.t = "str"
    /\ Len(interpretation.v) > 0

\* C4: an entry is written to the journal only after the request executor
\* returned a response (no entry after a failure shown as 'The Oracle is
\* silent') and the user answered the save prompt with y.
C4_EntryOnlyAfterSuccessAndConfirmation ==
  [][Len(Content(journal')) > Len(Content(journal)) =>
       /\ call = "returned"
       /\ save_choice = Yes]_vars

\* C5: the journal is append-only.  A successful save_dream keeps the old
\* content as a prefix and adds exactly one entry block, creating the file
\* when absent; view_journal changes nothing; written content is lost only
\* by a confirmed clear_journal, which removes the whole file.
C5_JournalAppendOnly ==
  [][/\ (pc = "Saving" /\ output' = Shown("message", MSG_ETCHED)) =>
          /\ Exists(journal')
          /\ IsPrefix(Content(journal), Content(journal'))
          /\ NumBlocks(Content(journal')) = NumBlocks(Content(journal)) + 1
          /\ \E timestamp \in Timestamps :
                Content(journal') =
                  Content(journal)
                    \o Entry(timestamp, sanitize_text(dream).v,
                             sanitize_text(interpretation).v)
     /\ pc = "Viewing" => journal' = journal
     /\ journal' # journal => pc \in {"Saving", "Clearing"}
     /\ (~IsPrefix(Content(journal), Content(journal'))
           \/ (Exists(journal) /\ ~Exists(journal'))) =>
          /\ pc = "Clearing"
          /\ confirm' = Yes
          /\ journal' = NoFile]_vars

C5_Witness ==
  /\ pc = "MenuIdle"
  /\ output = Shown("message", MSG_ETCHED)
  /\ NumBlocks(Content(journal)) = 2

SeparatorLine == <<NL>> \o Repeat("=", 60) \o <<NL>>

ShowsLastSaved ==
  /\ output.t = "journal"
  /\ Contains(output.v, Strip(RemoveChar(last_saved.dream.v, NUL)))
  /\ Contains(output.v, Strip(RemoveChar(last_saved.interpretation.v, NUL)))
  /\ Contains(output.v, SeparatorLine)

C7_ClearOnlyOnConfirmation ==
  [][pc = "Clearing" =>
       /\ journal' # journal =>
            (confirm' = Yes /\ Exists(journal) /\ journal' = NoFile)
       /\ confirm' # Yes => journal' = journal
       /\ ~Exists(journal) =>
            /\ journal' = journal
            /\ confirm' = Unset
            /\ output' = Shown("message", <<"No journal found to clear.">>)
       /\ Exists(journal) =>
            /\ confirm' # Unset
            /\ output' # Shown("message", <<"No journal found to clear.">>)]_vars

C7_Witness ==
  /\ JustCleared
  /\ confirm = StrV(<<"y", "e", "s">>)
  /\ output = Shown("message", MSG_UNTOUCHED)
  /\ NumBlocks(Content(journal)) >= 1

\* C8: every failure of the request executor is caught by
\* get_ai_interpretation and becomes a displayed string that starts with
\* 'The Oracle is silent.'; the session does not end: from there it goes
\* on through the save prompt (and the save) to MenuIdle.
C8_ExecutorFailuresBecomeSilentMessage ==
  [][/\ call = "raise" => call' = "raised"
     /\ call' = "raised" =>
          /\ raised' # Unset
          /\ interpretation'.t = "str"
          /\ StartsWith(interpretation'.v, <<"The Oracle is silent.">>)
          /\ call # "raised" =>
               output' = Shown("interpretation", interpretation'.v)
     /\ call = "raised" =>
          /\ pc' \in {"Interpreting", "Saving", "MenuIdle"}
          /\ uncaught' = Unset]_vars

C8_Witness ==
  /\ pc = "Saving"
  /\ call = "raised"
  /\ raised.type = "UnicodeDecodeError"
  /\ StartsWith(interpretation.v, <<"The Oracle is silent.">>)

\* C9: no error ends the session once it is in MenuIdle: the session
\* leaves its running states only for Exiting, and only by menu choice 4
\* (or from AwaitingApiKey when no key is obtained).
C9_OnlyChoice4EndsSession ==
  [][(pc' # pc /\ pc' \notin Running) =>
       /\ pc' = "Exiting"
       /\ \/ pc = "MenuIdle" /\ choice' = StrV(<<"4">>)
          \/ pc = "AwaitingApiKey" /\ ~Truthy(api_key')]_vars

\* the finish reason of the first candidate of a response is the string f
HasFinishReason(r, f) ==
  /\ r.t = "dict"
  /\ \E a \in 1..Len(r.v) :
       /\ r.v[a][1] = "candidates"
       /\ r.v[a][2].t = "list"
       /\ Len(r.v[a][2].v) > 0
       /\ r.v[a][2].v[1].t = "dict"
       /\ \E b \in 1..Len(r.v[a][2].v[1].v) :
            r.v[a][2].v[1].v[b] = <<"finishReason", StrV(f)>>

\* C10: when the finish reason of the first candidate is "MAX_TOKENS" the
\* result is exactly the truncation message, whatever the content is.
C10_MaxTokensGivesTruncationMessage ==
  (pc = "Parsed" /\ HasFinishReason(response, MAX_TOKENS)) =>
    interpretation =
      StrV(<<"The Oracle's vision was too vast and was cut short.", SP,
             "(MAX_TOKENS).">>)

C10_Witness ==
  /\ pc = "Parsed"
  /\ response = Envelope(StrV(MAX_TOKENS), StrV(SOME_TEXT))
  /\ interpretation = StrV(MSG_TRUNCATED)

\* the value of key in the dict x; Unset when x has no such key
Sub(x, key) ==
  IF x.t = "dict" /\ \E a \in 1..Len(x.v) : x.v[a][1] = key
  THEN x.v[CHOOSE a \in 1..Len(x.v) : x.v[a][1] = key][2]
  ELSE Unset

\* the first element of the list x; Unset when there is none
First(x) == IF x.t = "list" /\ Len(x.v) > 0 THEN x.v[1] ELSE Unset

IsString(x, text) == x.t = "str" /\ x.v = text

Candidate0(r) == First(Sub(r, "candidates"))
Content0(r) == Sub(Candidate0(r), "content")
Parts0(r) == Sub(Content0(r), "parts")
Part0(r) == First(Parts0(r))
Text0(r) == Sub(Part0(r), "text")

\* C11: when the finish reason of the first candidate is "STOP" and
\* candidates[0].content.parts[0].text is present (a string that is not
\* empty), the result is exactly that text.
C11_StopReturnsTextUnmodified ==
  (/\ pc = "Parsed"
   /\ IsString(Sub(Candidate0(response), "finishReason"), STOP)
   /\ Text0(response).t = "str"
   /\ Text0(response).v # <<>>) =>
    interpretation = Text0(response)

C11_Witness ==
  /\ pc = "Parsed"
  /\ response = Envelope(StrV(STOP), StrV(<<SP, "f", "r", NUL, "e", "e", NL>>))
  /\ interpretation = StrV(<<SP, "f", "r", NUL, "e", "e", NL>>)

LastOutcome == outcomes[Len(outcomes)]

\* the RuntimeError with a prefix and a reason as its message
Failure(prefix, reason) == Exc("RuntimeError", <<prefix, SP>> \o reason)

\* C12: make_api_request returns the parsed body or fails with one of two
\* kinds of error: the API error when the remote answered with a non-2xx
\* status, and the error of the transient kind (network or unexpected
\* failure) for everything else, after the retries are exhausted.
C12_ReturnsOrOneOfTwoErrorKinds ==
  /\ call = "returned" => (response # Unset /\ raised = Unset)
  /\ call = "raised" =>
       /\ raised.type = "RuntimeError"
       /\ IF LastOutcome.kind = "HTTPError"
          THEN StartsWith(raised.msg, <<"API Error:">>)
          ELSE /\ Len(outcomes) = 3
               /\ \/ StartsWith(raised.msg, <<"Network Error:">>)
                  \/ StartsWith(raised.msg, <<"Unexpected error:">>)

\* C14: a transient failure is recorded, followed by a wait of
\* 2 * attemptNumber seconds and then by another attempt: after every wait
\* the executor is back in the loop for the next attempt; when the attempts
\* are exhausted the call fails with the last recorded reason.
C14_EveryWaitIsFollowedByAnAttempt ==
  [][/\ Len(sleeps') > Len(sleeps) =>
          /\ sleeps'[Len(sleeps')] = 2 * Len(outcomes')
          /\ last_exception' # None
          /\ call' = "loop"
     /\ (call = "raise" /\ call' = "raised") => raised' = last_exception]_vars

\* C15: a 2xx body that is not JSON is handled as a transient failure: the
\* wait follows, and the attempt is retried when it is not the final one;
\* on the final attempt the call fails with the parse failure, an
\* 'Unexpected error' that is not the 'Network Error' of a connection
\* failure.
C15_UnparseableBodyRetriedThenSurfaced ==
  \A k \in 1..Len(outcomes) :
     outcomes[k].kind = "JSONDecodeError" =>
       /\ Len(sleeps) >= k
       /\ sleeps[k] = 2 * k
       /\ k < 3 => (Len(outcomes) > k \/ call = "loop")
       /\ k = 3 =>
            /\ call \in {"raise", "raised"}
            /\ call = "raised" =>
                 /\ raised = Failure("Unexpected error:", outcomes[k].reason)
                 /\ ~StartsWith(raised.msg, <<"Network Error:">>)

C15_Witness ==
  /\ call = "raised"
  /\ Len(outcomes) = 3
  /\ outcomes[1].kind = "URLError"
  /\ outcomes[3].kind = "JSONDecodeError"
  /\ interpretation =
       StrV(<<"The Oracle is silent.", SP, "Unexpected error:", SP,
              "Expecting", SP, "value">>)

\* C19: the first attempt answered with a 2xx response and a JSON body ends
\* the call: the body is returned and interpreted, no attempt and no wait
\* follow, and the errors recorded by earlier attempts are not surfaced.
C19_SuccessEndsCallAtOnce ==
  \A k \in 1..Len(outcomes) :
     outcomes[k].kind = "Success" =>
       /\ k = Len(outcomes)
       /\ Len(sleeps) = k - 1
       /\ call = "returned"
       /\ response \in SessionResponses
       /\ raised = Unset
       /\ interpretation = parse_generation_response(response)
       /\ ~(interpretation.t = "str"
            /\ StartsWith(interpretation.v, <<"The Oracle is silent.">>))
       /\ uncaught = Unset => output \in
            {Shown("interpretation", PyStr(interpretation)),
             Shown("message", MSG_ETCHED)}

C19_Witness ==
  /\ call = "returned"
  /\ Len(outcomes) = 3
  /\ sleeps = <<2, 4>>
  /\ last_exception # None
  /\ interpretation.t = "str"

\* the error recorded for an outcome
ErrorOf(o) ==
  CASE o.kind = "HTTPError" -> Failure("API Error:", o.reason)
    [] o.kind = "URLError" -> Failure("Network Error:", o.reason)
    [] OTHER -> Failure("Unexpected error:", o.reason)

\* C20: whatever the outcomes of the attempts, the call is over after at
\* most MAX_RETRIES attempts, with a body returned or an error raised, and
\* the error raised is the one recorded for the last attempt made.
C20_EndsWithErrorOfLastAttempt ==
  /\ Len(outcomes) <= 3
  /\ Len(outcomes) = 3 => call \in {"raise", "raised", "returned"}
  /\ call = "raised" => raised = ErrorOf(LastOutcome)

\* a text with no NUL byte and no white space at either end
Sanitized(text) ==
  /\ \A k \in 1..Len(text) : text[k] # NUL
  /\ text # <<>> => (text[1] \notin {SP, NL, "\t"}
                      /\ text[Len(text)] \notin {SP, NL, "\t"})

\* C13: sanitize_text returns a text with no NUL byte and no white space
\* at either end as it is; hence sanitizing a sanitized text changes
\* nothing.
C13_SanitizeIdempotent ==
  /\ (pc \in {"Sanitized", "Resanitized"} /\ Sanitized(dream.v)) =>
       interpretation = dream
  /\ pc = "Resanitized" => output = interpretation

C13_Witness ==
  /\ pc = "Resanitized"
  /\ dream = StrV(<<NUL, SP, "a", NL>>)
  /\ interpretation = StrV(<<"a">>)
  /\ output = StrV(<<"a">>)

\* the case of C16: a first candidate whose finish reason is absent or
\* "STOP" and whose text is absent or empty, each level being absent or of
\* its proper type
NoText(r) ==
  /\ Candidate0(r).t = "dict"
  /\ \/ Sub(Candidate0(r), "finishReason").t = "unset"
     \/ IsString(Sub(Candidate0(r), "finishReason"), STOP)
  /\ Content0(r).t \in {"unset", "dict"}
  /\ Parts0(r).t \in {"unset", "list"}
  /\ Part0(r).t \in {"unset", "dict"}
  /\ Text0(r).t = "unset" \/ IsString(Text0(r), <<>>)

\* C16 as stated: in that case the result is the 'vision unclear'
\* fallback, also when content, parts or parts[0] is missing.
C16_NoTextGivesUnclearAsStated ==
  (pc = "Parsed" /\ NoText(response)) =>
    interpretation =
      StrV(<<"The Oracle spoke, but the vision was unclear (could not parse text).">>)

\* C16 amended: in that case the result is the 'vision unclear' fallback
\* when parts[0] exists, and the critical-error fallback when content,
\* parts or parts[0] is missing or parts is an empty list.
C16_NoTextGivesUnclearOrCritical ==
  (pc = "Parsed" /\ NoText(response)) =>
    interpretation =
      (IF Part0(response).t = "dict"
       THEN StrV(<<"The Oracle spoke, but the vision was unclear (could not parse text).">>)
       ELSE StrV(<<"A critical error occurred while parsing the Oracle's response.">>))

C16_Witness ==
  /\ pc = "Parsed"
  /\ response = Envelope(StrV(STOP), StrV(<<>>))
  /\ interpretation = StrV(MSG_UNCLEAR)

\* C17: a dream that is empty or only white space is rejected: the session
\* is back in MenuIdle, the executor is not invoked, nothing is
\* interpreted and no save is offered; the executor only ever runs with a
\* dream that is not blank.
C17_BlankDreamRejected ==
  [][/\ call' # "none" =>
          /\ dream'.t = "str"
          /\ \E k \in 1..Len(dream'.v) : dream'.v[k] \notin {SP, NL, "\t"}
     /\ (pc = "Interpreting" /\ dream = Unset /\ dream' = Unset) =>
          /\ pc' = "MenuIdle"
          /\ call' = "none"
          /\ outcomes' = <<>>
          /\ interpretation' = Unset
          /\ save_choice' = Unset
          /\ journal' = journal
          /\ output' =
               Shown("message", <<"You must provide a dream to be interpreted.">>)]_vars

C17_Witness ==
  /\ pc = "MenuIdle"
  /\ choice = StrV(<<"1">>)
  /\ output = Shown("message", MSG_NEED_DREAM)
  /\ call = "none"
  /\ interpretation = Unset

\* C18: in AwaitingApiKey a key that is set and not empty in the
\* environment is taken without a prompt; otherwise each answer to the
\* prompt, trimmed, decides: empty asks again, q (in either case) leads to
\* Exiting, anything else is the key and leads to MenuIdle.  The session
\* runs only with a key that is not empty.
C18_KeyResolution ==
  [][/\ pc = "AwaitingApiKey" =>
          IF env_key.t = "str" /\ env_key.v # <<>>
          THEN /\ pc' = "MenuIdle"
               /\ api_key' = env_key
               /\ key_answer' = Unset
          ELSE /\ key_answer'.t = "str"
               /\ LET a == Strip(key_answer'.v) IN
                    /\ a = <<>> => (pc' = "AwaitingApiKey" /\ api_key' = Unset)
                    /\ a \in {<<"q">>, <<"Q">>} =>
                         (pc' = "Exiting" /\ api_key' = None)
                    /\ (a # <<>> /\ a \notin {<<"q">>, <<"Q">>}) =>
                         (pc' = "MenuIdle" /\ api_key' = StrV(a))
     /\ pc' \in Running => (api_key'.t = "str" /\ api_key'.v # <<>>)
     /\ pc = "Exiting" => pc' = "Exiting"]_vars

C18_Witness ==
  /\ pc = "MenuIdle"
  /\ env_key = StrV(<<>>)
  /\ key_answer = StrV(<<"k", "2", SP>>)
  /\ api_key = StrV(<<"k", "2">>)

====
